---- MODULE Spec2Model ----
(***************************************************************************)
(* solana-balance-watcher: the command line's configuration, the start-up  *)
(* in main, the fixed-address balance watcher, the program-accounts        *)
(* balance watchers, the metrics server task and the two gauge families.   *)
(*                                                                         *)
(* Text is a sequence of one-character strings.  Integers of the program   *)
(* are 64 bits wide and an f64 has a 53-bit significand; the model keeps   *)
(* both widths as the bounds LamportBits and MantissaBits, scaled down so  *)
(* that wrap-around and rounding happen on small numbers.                  *)
(***************************************************************************)
EXTENDS Integers, Sequences, FiniteSets, TLC

\* ------------------------------------------------------------- bounds
\* width of an unsigned integer of the program (u64, usize), scaled down
LamportBits == 3
\* width of the significand of an f64, scaled down
MantissaBits == 2
\* most --named-address flags on a command line
MaxNamedArgs == 2
\* most --program-accounts flags on a command line
MaxProgramArgs == 2
\* most flags of the two kinds together on a command line
MaxArgs == 3
\* most flags of each kind on a command line of the specifications with fairness
MaxLiveArgs == 1
\* most accounts in one get_program_accounts response
MaxAccounts == 2
\* most filter tokens in a configuration text handed to from_str on its own
MaxFilters == 2

\* ---------------------------------------------------------- constants
CHECK_INTERVAL == 300
BACKOFF_DURATION == 10
LAMPORTS_PER_SOL == 1000000000

\* ------------------------------------------------------------ numbers
RECURSIVE Pow2(_)
Pow2(n) == IF n = 0 THEN 1 ELSE 2 * Pow2(n - 1)

\* u64::MAX, usize::MAX
U64_MAX == Pow2(LamportBits) - 1

\* number of bits of n (0 for 0)
RECURSIVE BitLen(_)
BitLen(n) == IF n = 0 THEN 0 ELSE 1 + BitLen(n \div 2)

\* `lamports as f64`: the nearest value with MantissaBits significant bits,
\* ties to the even significand
U64AsF64(n) ==
    IF BitLen(n) <= MantissaBits THEN n
    ELSE LET unit == Pow2(BitLen(n) - MantissaBits)
             q == n \div unit
             r == n % unit
             up == (2 * r > unit) \/ (2 * r = unit /\ q % 2 = 1)
         IN  (IF up THEN q + 1 ELSE q) * unit

\* solana_sdk::native_token::lamports_to_sol: lamports as f64 / LAMPORTS_PER_SOL
\* as f64, kept as the quotient's two operands
lamports_to_sol(lamports) == <<U64AsF64(lamports), LAMPORTS_PER_SOL>>

\* the exact sum of a sequence of numbers
RECURSIVE SumSeq(_)
SumSeq(s) == IF s = <<>> THEN 0 ELSE Head(s) + SumSeq(Tail(s))

\* ---------------------------------------------------------------- text
Digits == {"0", "1", "2", "3", "4", "5", "6", "7", "8", "9"}
DigitVal(c) ==
    CASE c = "0" -> 0 [] c = "1" -> 1 [] c = "2" -> 2 [] c = "3" -> 3
      [] c = "4" -> 4 [] c = "5" -> 5 [] c = "6" -> 6 [] c = "7" -> 7
      [] c = "8" -> 8 [] c = "9" -> 9

\* position of the first c in s at or after from, 0 when there is none
RECURSIVE IndexOf(_, _, _)
IndexOf(s, c, from) ==
    IF from > Len(s) THEN 0
    ELSE IF s[from] = c THEN from
    ELSE IndexOf(s, c, from + 1)

\* str::split_once: None, or Some((before the first c, after it))
split_once(s, c) ==
    LET i == IndexOf(s, c, 1)
    IN  IF i = 0 THEN [some |-> FALSE]
        ELSE [some |-> TRUE,
              left |-> SubSeq(s, 1, i - 1),
              right |-> SubSeq(s, i + 1, Len(s))]

\* str::split(c) collected: the pieces between the c's, at least one piece
RECURSIVE split(_, _)
split(s, c) ==
    LET i == IndexOf(s, c, 1)
    IN  IF i = 0 THEN <<s>>
        ELSE <<SubSeq(s, 1, i - 1)>> \o split(SubSeq(s, i + 1, Len(s)), c)

\* the value of a run of decimal digits, no longer followed once past U64_MAX
RECURSIVE DigitsValue(_, _)
DigitsValue(s, acc) ==
    IF s = <<>> THEN acc
    ELSE IF acc > U64_MAX THEN acc
    ELSE DigitsValue(Tail(s), 10 * acc + DigitVal(Head(s)))

\* <unsigned integer>::from_str: an optional '+', then one or more decimal
\* digits, the value at most U64_MAX
parse_unsigned(s) ==
    LET body == IF s # <<>> /\ Head(s) = "+" THEN Tail(s) ELSE s
    IN  IF body = <<>> \/ \E i \in 1..Len(body) : body[i] \notin Digits
        THEN [ok |-> FALSE]
        ELSE LET v == DigitsValue(body, 0)
             IN  IF v > U64_MAX THEN [ok |-> FALSE] ELSE [ok |-> TRUE, value |-> v]

\* the account identifiers that exist in the model, as their base58 text
PubkeyTexts == {<<"X">>, <<"Y">>, <<"P">>, <<"Q">>}

\* Pubkey::from_str
Pubkey_from_str(s) ==
    IF s \in PubkeyTexts THEN [ok |-> TRUE, pubkey |-> s] ELSE [ok |-> FALSE]

\* ---------------------------------------------------- filter predicates
\* the size, were a text that does not parse to count as 0
parse_data_size_filter_type_or_default(data_size) ==
    LET n == parse_unsigned(data_size)
    IN  [tag |-> "Ok", filter |-> [kind |-> "DataSize",
                                   size |-> IF n.ok THEN n.value ELSE 0]]

parse_data_size_filter_type(data_size) ==
    LET n == parse_unsigned(data_size)
    IN  IF n.ok THEN [tag |-> "Ok", filter |-> [kind |-> "DataSize", size |-> n.value]]
        ELSE [tag |-> "Err", err |-> "ParseIntError"]

parse_memcmp_base58_filter_type(param) ==
    LET sp == split_once(param, ":")
    IN  IF sp.some
        THEN LET offset == parse_unsigned(sp.left)
             IN  IF offset.ok
                 THEN [tag |-> "Ok",
                       filter |-> [kind |-> "Memcmp", offset |-> offset.value,
                                   bytes |-> [encoding |-> "Base58", text |-> sp.right]]]
                 ELSE [tag |-> "Err", err |-> "ParseIntError"]
        ELSE [tag |-> "Err", err |-> "Failed to parse base58 memcmp filter"]

\* the match, were its last arm to take any other kind as a size
parse_rpc_filter_type_with_size_as_default(param) ==
    LET sp == split_once(param, ":")
    IN  IF sp.some
        THEN CASE sp.left = <<"b", "5", "8">> -> parse_memcmp_base58_filter_type(sp.right)
               [] OTHER -> parse_data_size_filter_type(sp.right)
        ELSE [tag |-> "Err", err |-> "Malformed parameter"]

parse_rpc_filter_type(param) ==
    LET sp == split_once(param, ":")
    IN  IF sp.some
        THEN CASE sp.left = <<"b", "5", "8">> -> parse_memcmp_base58_filter_type(sp.right)
               [] sp.left = <<"s", "i", "z", "e">> -> parse_data_size_filter_type(sp.right)
               [] OTHER -> [tag |-> "Err", err |-> "Unsupported parameter type"]
        ELSE [tag |-> "Err", err |-> "Malformed parameter"]

\* the loop, were it to put each filter before the ones it has
RECURSIVE parse_filters_in_reverse(_, _)
parse_filters_in_reverse(params, filters) ==
    IF params = <<>> THEN [tag |-> "Ok", filters |-> filters]
    ELSE LET f == parse_rpc_filter_type(Head(params))
         IN  IF f.tag = "Ok"
             THEN parse_filters_in_reverse(Tail(params), <<f.filter>> \o filters)
             ELSE f

\* the loop over the filter tokens: the first error ends it
RECURSIVE parse_filters(_, _)
parse_filters(params, filters) ==
    IF params = <<>> THEN [tag |-> "Ok", filters |-> filters]
    ELSE LET f == parse_rpc_filter_type(Head(params))
         IN  IF f.tag = "Ok" THEN parse_filters(Tail(params), Append(filters, f.filter))
             ELSE f

\* <ProgramAccountsBalanceConfig as FromStr>::from_str: Ok(target), Err(error),
\* or a panic (the expect on the program id)
from_str(s) ==
    LET sp == split_once(s, "=")
    IN  IF ~sp.some
        THEN [tag |-> "Err", err |-> "Cannot parse ProgramAccountsBalanceConfig"]
        ELSE LET params == split(sp.right, " ")
                 program == Pubkey_from_str(Head(params))
             IN  IF params = <<>> THEN [tag |-> "Err", err |-> "Program ID not found!"]
                 ELSE IF ~program.ok THEN [tag |-> "Panic"]
                 ELSE LET fs == parse_filters(Tail(params), <<>>)
                      IN  IF fs.tag = "Ok"
                          THEN [tag |-> "Ok",
                                config |-> [name |-> sp.left,
                                            program |-> program.pubkey,
                                            filters |-> fs.filters]]
                          ELSE fs

\* --------------------------------------------------------- command line
\* all sequences over S of length at most n
SeqsUpTo(S, n) == UNION {[1..k -> S] : k \in 0..n}

\* the texts a --named-address flag takes in the model: a=X, b=X, a=Y, one
\* without '=' and one whose address is no account identifier
NamedAddressArgs ==
    { <<"a", "=", "X">>, <<"b", "=", "X">>, <<"a", "=", "Y">>,
      <<"a", "X">>, <<"a", "=", "?">> }

\* the texts a --program-accounts flag takes in the model: t=P, t=Q,
\* u=Q size:1, one with an unsupported filter and one with a bad program id
ProgramAccountsArgs ==
    { <<"t", "=", "P">>, <<"t", "=", "Q">>,
      <<"u", "=", "Q", " ", "s", "i", "z", "e", ":", "1">>,
      <<"u", "=", "P", " ", "z", ":", "1">>,
      <<"u", "=", "?">> }

\* -------------------------------------------------------- parser inputs
\* the texts the parsers are called on, on their own: built from pieces, the
\* well-formed and the ill-formed alike
DigitChars == <<"0", "1", "2", "3", "4", "5", "6", "7", "8", "9">>

\* the decimal text of n
RECURSIVE Decimal(_)
Decimal(n) ==
    IF n < 10 THEN <<DigitChars[n + 1]>>
    ELSE Decimal(n \div 10) \o <<DigitChars[(n % 10) + 1]>>

\* the pieces with sep between them
RECURSIVE Join(_, _)
Join(pieces, sep) ==
    IF pieces = <<>> THEN <<>>
    ELSE IF Len(pieces) = 1 THEN Head(pieces)
    ELSE Head(pieces) \o <<sep>> \o Join(Tail(pieces), sep)

\* what follows "size:": 0, 1, the largest integer, the one past it, +1, -1,
\* x, 1x and nothing
SizeValueTexts ==
    { <<"0">>, <<"1">>, Decimal(U64_MAX), Decimal(U64_MAX + 1), <<"+", "1">>,
      <<"-", "1">>, <<"x">>, <<"1", "x">>, <<>> }

\* the offsets and the payloads of a "b58:" token; 0 and l are no base58 digits
OffsetTexts == { <<"1">>, Decimal(U64_MAX + 1), <<"-", "1">>, <<"x">>, <<>> }
PayloadTexts == { <<"A">>, <<"A", "z">>, <<"0">>, <<"A", "l">>, <<"A", ":", "A">>, <<>> }

\* what follows "b58:": offset:payload, and one text without ':'
MemcmpParamTexts ==
    {offset \o <<":">> \o payload : offset \in OffsetTexts, payload \in PayloadTexts}
        \cup { <<"1">> }

\* the filter tokens: size:..., b58:..., and z:1, size, b58, :1 and the empty one
FilterTokens ==
    {<<"s", "i", "z", "e", ":">> \o v : v \in SizeValueTexts}
        \cup {<<"b", "5", "8", ":">> \o m : m \in MemcmpParamTexts}
        \cup { <<"z", ":", "1">>, <<"s", "i", "z", "e">>, <<"b", "5", "8">>,
                <<":", "1">>, <<>> }

\* the pieces of a configuration text: names, program ids, filter tokens
ConfigNames == { <<"t">>, <<>> }
ConfigPrograms == { <<"P">>, <<"?">>, <<>> }
ConfigTokens ==
    { <<"s", "i", "z", "e", ":", "1">>, <<"b", "5", "8", ":", "1", ":", "A">>,
      <<"b", "5", "8", ":", "1", ":", "0">>, <<"s", "i", "z", "e", ":", "x">>,
      <<"z", ":", "1">>, <<>> }

\* name=program token ... token
config_text(name, program, tokens) ==
    name \o <<"=">> \o Join(<<program>> \o tokens, " ")

\* the configuration texts: every name, program id and up to MaxFilters tokens,
\* and three texts without '='
ConfigTexts ==
    {config_text(name, program, tokens) :
        name \in ConfigNames, program \in ConfigPrograms,
        tokens \in SeqsUpTo(ConfigTokens, MaxFilters)}
        \cup { <<"t">>, <<"t", " ", "P">>, <<>> }

ParserTexts == ConfigTexts \cup FilterTokens \cup MemcmpParamTexts \cup SizeValueTexts

\* ------------------------------------------------------------- RPC data
None == [some |-> FALSE]
Some(account) == [some |-> TRUE, account |-> account]

\* the balances an account of a response holds in the model
LamportChoices == {1, U64_MAX}
Accounts == {[lamports |-> l] : l \in LamportChoices}

\* get_multiple_accounts_with_config's Ok value for n requested addresses:
\* one Option<Account> per address, in the order requested
MultipleAccountsResponses(n) == [1..n -> {None} \cup {Some(a) : a \in Accounts}]

\* get_program_accounts_with_config's Ok value: the matching accounts
ProgramAccountsResponses == SeqsUpTo(Accounts, MaxAccounts)

\* --------------------------------------------------------------- state
VARIABLES
    named_addresses,            \* flags.named_addresses, what the loop has yet to take
    program_accounts_configs,   \* flags.program_accounts_configs, likewise
    process,                    \* "running", or how the process ended
    main_pc,                    \* where main is
    named_pubkeys,              \* main's HashMap<Pubkey, String>
    server,                     \* the metrics server task
    bw,                         \* the balance watcher task
    pws,                        \* the program-accounts watcher tasks, as spawned
    METRIC_BALANCE_SOL,         \* gauge family balance_sol: (name, pubkey) -> value
    METRIC_TOTAL_BALANCE_SOL,   \* gauge family total_balance_sol: name -> value
    text,                       \* the text handed to a parser called on its own
    parsed                      \* the parser called on it and what it returned

vars == <<named_addresses, program_accounts_configs, process,
          main_pc, named_pubkeys, server, bw, pws,
          METRIC_BALANCE_SOL, METRIC_TOTAL_BALANCE_SOL, text, parsed>>

flags == <<named_addresses, program_accounts_configs>>
gauges == <<METRIC_BALANCE_SOL, METRIC_TOTAL_BALANCE_SOL>>
parser == <<text, parsed>>

\* the empty map
EmptyMap == [x \in {} |-> {}]

\* no parser has been called on its own
NotParsed == [fn |-> "none"]

\* a task that tokio::spawn has not created yet; a watcher task's record:
\*   pc          "unspawned", "spawned" (created, not yet polled), "rpc" (awaiting the
\*               RPC call), "backoff" or "interval" (awaiting the sleep)
\*   outstanding RPC requests sent and not answered
\* and of the cycle the task is in, from the answer to its request on:
\*   outcome     how the RPC call ended: "none" (not yet), "ok" or "err"
\*   response    the Ok value of the RPC call
\*   calls       the calls into metrics.rs made while handling it, in order
\*   count       the account count logged while handling it
\*   sleeps      the sleeps begun since, in order
NewTask ==
    [pc |-> "unspawned", outstanding |-> 0, outcome |-> "none",
     response |-> <<>>, calls |-> <<>>, count |-> 0, sleeps |-> <<>>]

Init ==
    /\ named_addresses \in SeqsUpTo(NamedAddressArgs, MaxNamedArgs)
    /\ program_accounts_configs \in SeqsUpTo(ProgramAccountsArgs, MaxProgramArgs)
    /\ Len(named_addresses) + Len(program_accounts_configs) <= MaxArgs
    /\ process = "running"
    /\ main_pc = "named_addresses"
    /\ named_pubkeys = EmptyMap
    /\ server = "unspawned"
    /\ bw = NewTask @@ [pubkeys |-> <<>>]
    /\ pws = <<>>
    /\ METRIC_BALANCE_SOL = EmptyMap
    /\ METRIC_TOTAL_BALANCE_SOL = EmptyMap
    /\ text = <<>>
    /\ parsed = NotParsed

\* ----------------------------------------------------------- the exits
\* how the process ends: the panic hook's exit(1) after a panic, named by the
\* panic, or main returning the Err of from_str
ConfigExits ==
    { "panic: Failed to parse named address",
      "panic: Cannot parse pubkey",
      "panic: pubkey is stored with a different name already",
      "panic: Failed to parse program ID",
      "main returned Err" }
RuntimeExits ==
    { "panic: metrics server", "panic: attempt to add with overflow" }

\* the process ends: its tasks, its memory and its gauges are gone
Exit(how) ==
    /\ process' = how
    /\ named_addresses' = <<>>
    /\ program_accounts_configs' = <<>>
    /\ main_pc' = "exited"
    /\ named_pubkeys' = EmptyMap
    /\ server' = "exited"
    /\ bw' = [NewTask EXCEPT !.pc = "exited"] @@ [pubkeys |-> <<>>]
    /\ pws' = <<>>
    /\ METRIC_BALANCE_SOL' = EmptyMap
    /\ METRIC_TOTAL_BALANCE_SOL' = EmptyMap

\* ---------------------------------------------------------------- main
\* one iteration of main's loop over flags.named_addresses: the map after it,
\* or a panic
insert_named_address(map, named_address) ==
    LET sp == split_once(named_address, "=")
    IN  IF sp.some
        THEN LET pubkey == Pubkey_from_str(sp.right)
             IN  IF ~pubkey.ok THEN [panic |-> TRUE, why |-> "panic: Cannot parse pubkey"]
                 ELSE IF pubkey.pubkey \in DOMAIN map
                 THEN [panic |-> TRUE,
                       why |-> "panic: pubkey is stored with a different name already"]
                 ELSE [panic |-> FALSE,
                       map |-> [k \in DOMAIN map \cup {pubkey.pubkey} |->
                                  IF k = pubkey.pubkey THEN sp.left ELSE map[k]]]
        ELSE [panic |-> TRUE, why |-> "panic: Failed to parse named address"]

MainNamedAddress ==
    /\ process = "running"
    /\ UNCHANGED parser
    /\ main_pc = "named_addresses"
    /\ named_addresses # <<>>
    /\ LET r == insert_named_address(named_pubkeys, Head(named_addresses))
       IN  IF r.panic
           THEN Exit(r.why)
           ELSE /\ named_pubkeys' = r.map
                /\ named_addresses' = Tail(named_addresses)
                /\ UNCHANGED <<process, program_accounts_configs, main_pc, server,
                               bw, pws, gauges>>

MainNamedAddressesDone ==
    /\ process = "running"
    /\ UNCHANGED parser
    /\ main_pc = "named_addresses"
    /\ named_addresses = <<>>
    /\ main_pc' = "spawn_metrics_server"
    /\ UNCHANGED <<flags, process, named_pubkeys, server, bw, pws, gauges>>

MainSpawnMetricsServer ==
    /\ process = "running"
    /\ UNCHANGED parser
    /\ main_pc = "spawn_metrics_server"
    /\ server' = "serving"
    /\ main_pc' = "spawn_balance_watcher"
    /\ UNCHANGED <<flags, process, named_pubkeys, bw, pws, gauges>>

MainSpawnBalanceWatcher ==
    /\ process = "running"
    /\ UNCHANGED parser
    /\ main_pc = "spawn_balance_watcher"
    /\ bw' = [bw EXCEPT !.pc = "spawned"]
    /\ main_pc' = "program_accounts"
    /\ UNCHANGED <<flags, process, named_pubkeys, server, pws, gauges>>

\* ProgramAccountsBalanceConfig::from_str(&program_account_config) for each
\* text of the flag, computed once
from_str_of == [s \in ProgramAccountsArgs |-> from_str(s)]

\* one iteration of main's loop over flags.program_accounts_configs
MainProgramAccounts ==
    /\ process = "running"
    /\ UNCHANGED parser
    /\ main_pc = "program_accounts"
    /\ program_accounts_configs # <<>>
    /\ LET r == from_str_of[Head(program_accounts_configs)]
       IN  IF r.tag = "Ok"
           THEN /\ pws' = Append(pws, [NewTask EXCEPT !.pc = "spawned"]
                                       @@ [config |-> r.config])
                /\ program_accounts_configs' = Tail(program_accounts_configs)
                /\ UNCHANGED <<process, named_addresses, main_pc, named_pubkeys,
                               server, bw, gauges>>
           ELSE IF r.tag = "Err"
           THEN Exit("main returned Err")
           ELSE Exit("panic: Failed to parse program ID")

MainJoinAll ==
    /\ process = "running"
    /\ UNCHANGED parser
    /\ main_pc = "program_accounts"
    /\ program_accounts_configs = <<>>
    /\ main_pc' = "join_all"
    /\ UNCHANGED <<flags, process, named_pubkeys, server, bw, pws, gauges>>

Main ==
    \/ MainNamedAddress
    \/ MainNamedAddressesDone
    \/ MainSpawnMetricsServer
    \/ MainSpawnBalanceWatcher
    \/ MainProgramAccounts
    \/ MainJoinAll

\* -------------------------------------------------------------- metrics
\* metrics.rs, as the effect of one call on each gauge family.  A call is a
\* record whose op is the function called
update_metric_balance_sol(store, name, pubkey, value) ==
    [l \in DOMAIN store \cup {<<name, pubkey>>} |->
        IF l = <<name, pubkey>> THEN value ELSE store[l]]

\* the reset, were it to leave the gauges in place
reset_metric_balance_sol_keeping_the_gauges(store) == store

reset_metric_balance_sol(store) == EmptyMap

update_metric_total_balance_sol(store, name, value) ==
    [l \in DOMAIN store \cup {name} |-> IF l = name THEN value ELSE store[l]]

remove_metric_total_balance_sol(store, name) ==
    [l \in DOMAIN store \ {name} |-> store[l]]

\* METRIC_BALANCE_SOL after a call
ApplyBalance(store, call) ==
    CASE call.op = "update_metric_balance_sol" ->
            update_metric_balance_sol(store, call.name, call.pubkey, call.value)
      [] call.op = "reset_metric_balance_sol" -> reset_metric_balance_sol(store)
      [] OTHER -> store

\* METRIC_TOTAL_BALANCE_SOL after a call
ApplyTotal(store, call) ==
    CASE call.op = "update_metric_total_balance_sol" ->
            update_metric_total_balance_sol(store, call.name, call.value)
      [] call.op = "remove_metric_total_balance_sol" ->
            remove_metric_total_balance_sol(store, call.name)
      [] OTHER -> store

\* the two stores after a sequence of calls, made in order
RECURSIVE ApplyAll(_, _)
ApplyAll(stores, calls) ==
    IF calls = <<>> THEN stores
    ELSE ApplyAll([balance |-> ApplyBalance(stores.balance, Head(calls)),
                   total |-> ApplyTotal(stores.total, Head(calls))],
                  Tail(calls))

MetricsAfter(calls) ==
    LET after == ApplyAll([balance |-> METRIC_BALANCE_SOL,
                           total |-> METRIC_TOTAL_BALANCE_SOL], calls)
    IN  /\ METRIC_BALANCE_SOL' = after.balance
        /\ METRIC_TOTAL_BALANCE_SOL' = after.total

\* ------------------------------------------------------- metrics server
\* the server task ends in a panic: the bind fails, or serve returns an error
\* that is unwrapped; the panic hook exits the process
ServerPanic ==
    /\ process = "running"
    /\ UNCHANGED parser
    /\ server = "serving"
    /\ Exit("panic: metrics server")

\* serve returns Ok: "Metrics server exitted cleanly", the task is over
ServerExitCleanly ==
    /\ process = "running"
    /\ UNCHANGED parser
    /\ server = "serving"
    /\ server' = "ended"
    /\ UNCHANGED <<flags, process, main_pc, named_pubkeys, bw, pws, gauges>>

\* ------------------------------------------------------ balance watcher
\* all orders of the elements of a set: HashMap::keys comes in any order
Orders(S) == {s \in [1..Cardinality(S) -> S] : \A i, j \in 1..Cardinality(S) :
                                                  i # j => s[i] # s[j]}

Min(a, b) == IF a <= b THEN a ELSE b

\* the balance the watcher publishes for one Option<Account>
account_balance(account) ==
    lamports_to_sol(IF account.some THEN account.account.lamports ELSE 0)

\* the Err arm without its reset
balance_on_err_without_reset == <<>>

\* the calls into metrics.rs on the Err arm
balance_on_err == <<[op |-> "reset_metric_balance_sol"]>>

\* the loop, were it to skip the accounts that do not exist
balance_on_ok_skipping_missing(pubkeys, named, response) ==
    LET RECURSIVE Calls(_)
        Calls(i) ==
            IF i > Min(Len(pubkeys), Len(response)) THEN <<>>
            ELSE (IF response[i].some
                  THEN <<[op |-> "update_metric_balance_sol",
                          name |-> named[pubkeys[i]],
                          pubkey |-> pubkeys[i],
                          value |-> account_balance(response[i])]>>
                  ELSE <<>>) \o Calls(i + 1)
    IN  Calls(1)

\* the loop, were it to give every address the name of the first
balance_on_ok_with_the_first_name(pubkeys, named, response) ==
    [i \in 1..Min(Len(pubkeys), Len(response)) |->
        [op |-> "update_metric_balance_sol",
         name |-> named[pubkeys[1]],
         pubkey |-> pubkeys[i],
         value |-> account_balance(response[i])]]

\* the calls into metrics.rs of the loop over pubkeys.iter().zip(response.value)
balance_on_ok(pubkeys, named, response) ==
    [i \in 1..Min(Len(pubkeys), Len(response)) |->
        [op |-> "update_metric_balance_sol",
         name |-> named[pubkeys[i]],
         pubkey |-> pubkeys[i],
         value |-> account_balance(response[i])]]

\* the sleep of the Err arm, were it the sleep that ends a cycle
balance_backoff_as_long_as_the_interval == CHECK_INTERVAL

\* the sleep of the Err arm and the sleep that ends a cycle
balance_backoff == BACKOFF_DURATION
balance_interval == CHECK_INTERVAL

\* the task starts: it collects the keys and sends the first request
BwStart ==
    /\ process = "running"
    /\ UNCHANGED parser
    /\ bw.pc = "spawned"
    /\ \E order \in Orders(DOMAIN named_pubkeys) :
          bw' = [bw EXCEPT !.pc = "rpc", !.pubkeys = order,
                           !.outstanding = @ + 1]
    /\ UNCHANGED <<flags, process, main_pc, named_pubkeys, server, pws, gauges>>

\* the request fails, were the Err arm to leave the loop
BwRpcErr_leaving_the_loop ==
    /\ process = "running"
    /\ UNCHANGED parser
    /\ bw.pc = "rpc"
    /\ bw' = [bw EXCEPT !.pc = "returned", !.outstanding = @ - 1,
                        !.outcome = "err", !.response = <<>>,
                        !.calls = balance_on_err, !.count = 0,
                        !.sleeps = <<>>]
    /\ MetricsAfter(balance_on_err)
    /\ UNCHANGED <<flags, process, main_pc, named_pubkeys, server, pws>>

\* the request fails
BwRpcErr ==
    /\ process = "running"
    /\ UNCHANGED parser
    /\ bw.pc = "rpc"
    /\ bw' = [bw EXCEPT !.pc = "backoff", !.outstanding = @ - 1,
                        !.outcome = "err", !.response = <<>>,
                        !.calls = balance_on_err, !.count = 0,
                        !.sleeps = <<balance_backoff>>]
    /\ MetricsAfter(balance_on_err)
    /\ UNCHANGED <<flags, process, main_pc, named_pubkeys, server, pws>>

\* the request succeeds
BwRpcOk ==
    /\ process = "running"
    /\ UNCHANGED parser
    /\ bw.pc = "rpc"
    /\ \E response \in MultipleAccountsResponses(Len(bw.pubkeys)) :
          LET calls == balance_on_ok(bw.pubkeys, named_pubkeys, response)
          IN  /\ bw' = [bw EXCEPT !.pc = "interval", !.outstanding = @ - 1,
                                  !.outcome = "ok", !.response = response,
                                  !.calls = calls, !.count = 0,
                                  !.sleeps = <<balance_interval>>]
              /\ MetricsAfter(calls)
    /\ UNCHANGED <<flags, process, main_pc, named_pubkeys, server, pws>>

\* the sleep is over: the loop sends the next request
BwWake ==
    /\ process = "running"
    /\ UNCHANGED parser
    /\ bw.pc \in {"backoff", "interval"}
    /\ bw' = [bw EXCEPT !.pc = "rpc", !.outstanding = @ + 1,
                        !.outcome = "none", !.response = <<>>, !.calls = <<>>,
                        !.count = 0, !.sleeps = <<>>]
    /\ UNCHANGED <<flags, process, main_pc, named_pubkeys, server, pws, gauges>>

BalanceWatcher == BwStart \/ BwRpcErr \/ BwRpcOk \/ BwWake

\* --------------------------------------------- program-accounts watchers
\* the lamports of the accounts of a response, in order
Lamports(response) == [i \in 1..Len(response) |-> response[i].lamports]

\* Iterator::sum::<u64>: the sum, and whether it passed u64::MAX on the way.
\* Past it the build decides: with overflow checks (a debug build) the addition
\* panics, without them (a release build) it wraps
u64_sum(lamports) ==
    [overflow |-> SumSeq(lamports) > U64_MAX,
     value |-> SumSeq(lamports) % (U64_MAX + 1)]

\* the Err arm without its remove
program_on_err_without_remove(config) == <<>>

\* the calls into metrics.rs on the Err arm
program_on_err(config) ==
    <<[op |-> "remove_metric_total_balance_sol", name |-> config.name]>>

\* the publication, were it to reset the per-account gauges first
program_on_ok_resetting_the_balances(config, total) ==
    <<[op |-> "reset_metric_balance_sol"],
      [op |-> "update_metric_total_balance_sol", name |-> config.name,
       value |-> lamports_to_sol(total)]>>

\* the calls into metrics.rs after a response whose sum is total
program_on_ok(config, total) ==
    <<[op |-> "update_metric_total_balance_sol", name |-> config.name,
       value |-> lamports_to_sol(total)]>>

\* the count the watcher logs
program_count(response) == Len(response)

\* the sleep of the Err arm and the sleep that ends a cycle
program_backoff == BACKOFF_DURATION
program_interval == CHECK_INTERVAL

\* the task starts: it sends the first request
PwStart(i) ==
    /\ process = "running"
    /\ UNCHANGED parser
    /\ i \in 1..Len(pws)
    /\ pws[i].pc = "spawned"
    /\ pws' = [pws EXCEPT ![i].pc = "rpc", ![i].outstanding = @ + 1]
    /\ UNCHANGED <<flags, process, main_pc, named_pubkeys, server, bw, gauges>>

\* the request fails
PwRpcErr(i) ==
    /\ process = "running"
    /\ UNCHANGED parser
    /\ i \in 1..Len(pws)
    /\ pws[i].pc = "rpc"
    /\ pws' = [pws EXCEPT ![i].pc = "backoff", ![i].outstanding = @ - 1,
                          ![i].outcome = "err", ![i].response = <<>>,
                          ![i].calls = program_on_err(pws[i].config),
                          ![i].count = 0,
                          ![i].sleeps = <<program_backoff>>]
    /\ MetricsAfter(program_on_err(pws[i].config))
    /\ UNCHANGED <<flags, process, main_pc, named_pubkeys, server, bw>>

\* the request succeeds
PwRpcOk(i) ==
    /\ process = "running"
    /\ UNCHANGED parser
    /\ i \in 1..Len(pws)
    /\ pws[i].pc = "rpc"
    /\ \E response \in ProgramAccountsResponses, overflow_checks \in BOOLEAN :
          LET sum == u64_sum(Lamports(response))
              calls == program_on_ok(pws[i].config, sum.value)
          IN  IF sum.overflow /\ overflow_checks
              THEN Exit("panic: attempt to add with overflow")
              ELSE /\ pws' = [pws EXCEPT ![i].pc = "interval", ![i].outstanding = @ - 1,
                                         ![i].outcome = "ok", ![i].response = response,
                                         ![i].calls = calls,
                                         ![i].count = program_count(response),
                                         ![i].sleeps = <<program_interval>>]
                   /\ MetricsAfter(calls)
                   /\ UNCHANGED <<flags, process, main_pc, named_pubkeys, server, bw>>

\* the sleep is over, were the watchers to share one request slot with the
\* balance watcher
PwWake_sharing_a_slot(i) ==
    /\ process = "running"
    /\ UNCHANGED parser
    /\ i \in 1..Len(pws)
    /\ pws[i].pc \in {"backoff", "interval"}
    /\ bw.pc # "rpc"
    /\ pws' = [pws EXCEPT ![i].pc = "rpc", ![i].outstanding = @ + 1,
                          ![i].outcome = "none", ![i].response = <<>>,
                          ![i].calls = <<>>, ![i].count = 0, ![i].sleeps = <<>>]
    /\ UNCHANGED <<flags, process, main_pc, named_pubkeys, server, bw, gauges>>

\* the sleep is over: the loop sends the next request
PwWake(i) ==
    /\ process = "running"
    /\ UNCHANGED parser
    /\ i \in 1..Len(pws)
    /\ pws[i].pc \in {"backoff", "interval"}
    /\ pws' = [pws EXCEPT ![i].pc = "rpc", ![i].outstanding = @ + 1,
                          ![i].outcome = "none", ![i].response = <<>>,
                          ![i].calls = <<>>, ![i].count = 0, ![i].sleeps = <<>>]
    /\ UNCHANGED <<flags, process, main_pc, named_pubkeys, server, bw, gauges>>

ProgramWatcher(i) == PwStart(i) \/ PwRpcErr(i) \/ PwRpcOk(i) \/ PwWake(i)

\* ------------------------------------------------------- specification
Next ==
    \/ MainNamedAddress
    \/ MainNamedAddressesDone
    \/ MainSpawnMetricsServer
    \/ MainSpawnBalanceWatcher
    \/ MainProgramAccounts
    \/ MainJoinAll
    \/ ServerPanic
    \/ ServerExitCleanly
    \/ BwStart
    \/ BwRpcErr
    \/ BwRpcOk
    \/ BwWake
    \/ \E i \in 1..MaxProgramArgs : PwStart(i)
    \/ \E i \in 1..MaxProgramArgs : PwRpcErr(i)
    \/ \E i \in 1..MaxProgramArgs : PwRpcOk(i)
    \/ \E i \in 1..MaxProgramArgs : PwWake(i)

Spec == Init /\ [][Next]_vars

\* the command lines of the specifications with fairness
LiveInit ==
    /\ Init
    /\ Len(named_addresses) <= MaxLiveArgs
    /\ Len(program_accounts_configs) <= MaxLiveArgs

\* main runs on: the runtime drives the main task
MainFairSpec == LiveInit /\ [][Next]_vars /\ WF_vars(Main)

\* and every task runs on: the runtime polls every task that can move, every
\* RPC call returns and every sleep ends
FairSpec ==
    /\ LiveInit /\ [][Next]_vars
    /\ WF_vars(Main)
    /\ WF_vars(BalanceWatcher)
    /\ \A i \in 1..MaxProgramArgs : WF_vars(ProgramWatcher(i))

\* ------------------------------------------------- the parsers alone
\* the program at rest, a text at hand and no parser called on it yet
ParseInit ==
    /\ named_addresses = <<>>
    /\ program_accounts_configs = <<>>
    /\ process = "running"
    /\ main_pc = "named_addresses"
    /\ named_pubkeys = EmptyMap
    /\ server = "unspawned"
    /\ bw = NewTask @@ [pubkeys |-> <<>>]
    /\ pws = <<>>
    /\ METRIC_BALANCE_SOL = EmptyMap
    /\ METRIC_TOTAL_BALANCE_SOL = EmptyMap
    /\ text \in ParserTexts
    /\ parsed = NotParsed

program_state == <<named_addresses, program_accounts_configs, process, main_pc,
                   named_pubkeys, server, bw, pws, gauges>>

CallFromStr ==
    /\ parsed = NotParsed
    /\ parsed' = [fn |-> "from_str", result |-> from_str(text)]
    /\ UNCHANGED <<program_state, text>>

CallParseRpcFilterType ==
    /\ parsed = NotParsed
    /\ parsed' = [fn |-> "parse_rpc_filter_type", result |-> parse_rpc_filter_type(text)]
    /\ UNCHANGED <<program_state, text>>

CallParseMemcmpBase58FilterType ==
    /\ parsed = NotParsed
    /\ parsed' = [fn |-> "parse_memcmp_base58_filter_type",
                  result |-> parse_memcmp_base58_filter_type(text)]
    /\ UNCHANGED <<program_state, text>>

CallParseDataSizeFilterType ==
    /\ parsed = NotParsed
    /\ parsed' = [fn |-> "parse_data_size_filter_type",
                  result |-> parse_data_size_filter_type(text)]
    /\ UNCHANGED <<program_state, text>>

ParseNext ==
    \/ CallFromStr
    \/ CallParseRpcFilterType
    \/ CallParseMemcmpBase58FilterType
    \/ CallParseDataSizeFilterType

ParseSpec == ParseInit /\ [][ParseNext]_vars

\* -------------------------------------------------------------- claims
\* the calls of a cycle that are calls of op
CallsOf(calls, op) == {i \in DOMAIN calls : calls[i].op = op}

\* the position of pubkey in the request list
PositionOf(pubkeys, pubkey) == CHOOSE i \in DOMAIN pubkeys : pubkeys[i] = pubkey

\* what a failed cycle of the balance watcher has done, and where it is
C1_AfterFailure ==
    bw.outcome = "err" =>
        /\ Cardinality(CallsOf(bw.calls, "reset_metric_balance_sol")) = 1
        /\ CallsOf(bw.calls, "update_metric_balance_sol") = {}
        /\ Len(bw.calls) = 1
        /\ bw.pc = "backoff"
        /\ bw.sleeps = <<10>>
        /\ process = "running"

\* C1: a poll cycle of the fixed-address watcher whose RPC call failed has
\* called reset_metric_balance_sol exactly once and update_metric_balance_sol
\* not at all, and the watcher is in the sleep of BACKOFF_DURATION (10 s), the
\* only sleep of the cycle; the step that ends that sleep sends the next request.
C1_FailedCycleResetsOnceThenRetries ==
    /\ []C1_AfterFailure
    /\ [][bw.outcome = "err" /\ bw' # bw /\ process' = "running"
            => bw'.pc = "rpc" /\ bw'.outstanding = 1]_vars

\* C1's case: the watcher of two addresses is in the backoff of a failed cycle
C1_Witness ==
    bw.outcome = "err" /\ bw.pc = "backoff" /\ Len(bw.pubkeys) = 2

\* the balance the response of the cycle reports for pubkey, in SOL
C2_Expected(pubkey) ==
    LET at == bw.response[PositionOf(bw.pubkeys, pubkey)]
    IN  lamports_to_sol(IF at.some THEN at.account.lamports ELSE 0)

\* C2: a poll cycle of the fixed-address watcher whose RPC call succeeded has
\* called update_metric_balance_sol exactly once for every configured address
\* and for nothing else, with the address's configured name and the balance of
\* the response at the address's position in the request list, zero when the
\* response has no account there; the gauge of the address holds that value.
C2_SuccessSetsEveryAddress ==
    bw.outcome = "ok" =>
        /\ Len(bw.calls) = Cardinality(DOMAIN named_pubkeys)
        /\ \A pubkey \in DOMAIN named_pubkeys :
              /\ \E i \in DOMAIN bw.pubkeys : bw.pubkeys[i] = pubkey
              /\ Cardinality({i \in DOMAIN bw.calls : bw.calls[i].pubkey = pubkey}) = 1
              /\ \A i \in DOMAIN bw.calls :
                    bw.calls[i].pubkey = pubkey =>
                        /\ bw.calls[i].op = "update_metric_balance_sol"
                        /\ bw.calls[i].name = named_pubkeys[pubkey]
                        /\ bw.calls[i].value = C2_Expected(pubkey)
              /\ <<named_pubkeys[pubkey], pubkey>> \in DOMAIN METRIC_BALANCE_SOL
              /\ METRIC_BALANCE_SOL[<<named_pubkeys[pubkey], pubkey>>]
                    = C2_Expected(pubkey)

\* C2's case: two addresses, the response holds an account for the first
\* requested and none for the second
C2_Witness ==
    /\ bw.outcome = "ok"
    /\ Len(bw.pubkeys) = 2
    /\ bw.response[1].some
    /\ ~bw.response[2].some
    /\ METRIC_BALANCE_SOL[<<named_pubkeys[bw.pubkeys[2]], bw.pubkeys[2]>>]
          = lamports_to_sol(0)

\* C3: a poll cycle of a program-accounts watcher whose RPC call succeeded has
\* set the aggregate gauge of the target's name to the exact sum of the
\* lamports of the accounts of that response (converted to SOL), and has logged
\* the number of accounts of that response.
C3_SuccessSetsExactSum ==
    \A i \in 1..Len(pws) :
        pws[i].outcome = "ok" =>
            /\ pws[i].calls =
                  <<[op |-> "update_metric_total_balance_sol",
                     name |-> pws[i].config.name,
                     value |-> lamports_to_sol(SumSeq(Lamports(pws[i].response)))]>>
            /\ pws[i].count = Len(pws[i].response)

\* what a failed cycle of the i-th watcher has done, and where it is
C4_AfterFailure(i) ==
    pws[i].outcome = "err" =>
        /\ pws[i].calls = <<[op |-> "remove_metric_total_balance_sol",
                             name |-> pws[i].config.name]>>
        /\ CallsOf(pws[i].calls, "update_metric_total_balance_sol") = {}
        /\ pws[i].pc = "backoff"
        /\ pws[i].sleeps = <<10>>
        /\ process = "running"

\* C4: a poll cycle of a program-accounts watcher whose RPC call failed has
\* called remove_metric_total_balance_sol exactly once, with its target's name,
\* and update_metric_total_balance_sol not at all, and the watcher is in the
\* sleep of BACKOFF_DURATION (10 s), the only sleep of the cycle; the step that
\* ends that sleep sends the next request.
C4_FailedCycleRemovesOnceThenRetries ==
    /\ [](\A i \in 1..Len(pws) : C4_AfterFailure(i))
    /\ [][\A i \in 1..Len(pws) :
            pws[i].outcome = "err" /\ process' = "running" /\ pws'[i] # pws[i]
                => pws'[i].pc = "rpc" /\ pws'[i].outstanding = 1]_vars

\* C4's case: a watcher whose gauge another cycle had set is in the backoff of
\* a failed cycle, and the gauge of its name is gone
C4_Witness ==
    \E i \in 1..Len(pws) :
        /\ pws[i].outcome = "err"
        /\ pws[i].pc = "backoff"
        /\ pws[i].config.name \notin DOMAIN METRIC_TOTAL_BALANCE_SOL
        /\ Len(pws) = 2

\* C5: for two different program-accounts watchers A and B, a failed poll of
\* A leaves the aggregate gauge that B's latest successful poll published in
\* place, with its value.
C5_FailureOfOneLeavesTheOther ==
    [][\A a, b \in 1..Len(pws) :
          ( /\ a # b /\ pws[a].config # pws[b].config
            /\ process' = "running"
            /\ pws[a].pc = "rpc" /\ pws'[a].outcome = "err"
            /\ pws[b].outcome = "ok"
            /\ pws[b].config.name \in DOMAIN METRIC_TOTAL_BALANCE_SOL )
          => /\ pws[b].config.name \in DOMAIN METRIC_TOTAL_BALANCE_SOL'
             /\ METRIC_TOTAL_BALANCE_SOL'[pws[b].config.name]
                   = METRIC_TOTAL_BALANCE_SOL[pws[b].config.name]]_vars

\* the flag main's loop is at, split at its first '='
NamedAddressAtHand == split_once(Head(named_addresses), "=")

\* C6: a configuration error ends the process before any task is spawned: at
\* the step that ends the process on one, the metrics server, the balance
\* watcher and every program-accounts watcher are still unspawned.
C6_ConfigErrorBeforeAnySpawn ==
    [][process = "running" /\ process' \in ConfigExits
          => server = "unspawned" /\ bw.pc = "unspawned" /\ pws = <<>>]_vars

\* C7: main's loop over the named addresses panics on a duplicate address
\* exactly when the flag at hand gives an address that is in the map already a
\* name other than the one the map holds for it.
C7_DuplicateFailsOnlyOnDifferentName ==
    [][process = "running" /\ main_pc = "named_addresses" /\ named_addresses # <<>>
       /\ NamedAddressAtHand.some /\ Pubkey_from_str(NamedAddressAtHand.right).ok
          => ( process' = "panic: pubkey is stored with a different name already"
               <=> /\ NamedAddressAtHand.right \in DOMAIN named_pubkeys
                   /\ named_pubkeys[NamedAddressAtHand.right] # NamedAddressAtHand.left )]_vars

\* the balance watcher, the i-th program-accounts watcher sends a request
BwPolls == BwStart \/ BwWake
PwPolls(i) == PwStart(i) \/ PwWake(i)

\* C8: the step that handles a failed RPC call leaves the process running and
\* the watcher in its backoff sleep; and with every task running on, a watcher
\* that has handled a failure sends its next request, and every watcher sends
\* requests again and again, unless the process ends for another reason (a
\* panic, or main returning an error).
C8_TransportFailureNeverTerminates ==
    /\ [][bw.pc = "rpc" /\ bw'.outcome = "err"
            => process' = "running" /\ bw'.pc = "backoff"]_vars
    /\ [][\A i \in 1..Len(pws) :
            (pws[i].pc = "rpc" /\ i \in 1..Len(pws') /\ pws'[i].outcome = "err")
                => process' = "running" /\ pws'[i].pc = "backoff"]_vars
    /\ (bw.outcome = "err") ~> (bw.pc = "rpc" \/ process # "running")
    /\ \A i \in 1..MaxProgramArgs :
          (i \in 1..Len(pws) /\ pws[i].outcome = "err")
              ~> ((i \in 1..Len(pws) /\ pws[i].pc = "rpc") \/ process # "running")
    /\ []<><<BwPolls>>_vars \/ <>(process # "running")
    /\ \A i \in 1..MaxProgramArgs :
          \/ []<><<PwPolls(i)>>_vars
          \/ <>(process # "running")
          \/ [](Len(pws) < i)

\* C8's case: the balance watcher and a program-accounts watcher are both in
\* the backoff of a failed cycle, main waits in join_all, and the process runs
C8_Witness ==
    /\ process = "running"
    /\ main_pc = "join_all"
    /\ bw.outcome = "err"
    /\ Len(pws) >= 1
    /\ \A i \in 1..Len(pws) : pws[i].outcome = "err"

\* the watcher tasks there are
Watchers == {bw} \cup {pws[i] : i \in 1..Len(pws)}

\* the moves of a watcher task from one place of its loop to the next
CycleMoves ==
    { <<"unspawned", "spawned">>, <<"spawned", "rpc">>,
      <<"rpc", "backoff">>, <<"rpc", "interval">>,
      <<"backoff", "rpc">>, <<"interval", "rpc">> }

\* a watcher task between two steps: its request, its outcome, its sleep
C9_CycleShape(task) ==
    /\ task.outstanding \in {0, 1}
    /\ task.outstanding = 1 <=> task.pc = "rpc"
    /\ task.pc = "rpc" => task.outcome = "none" /\ task.sleeps = <<>>
    /\ task.pc = "backoff" <=> task.outcome = "err"
    /\ task.pc = "interval" <=> task.outcome = "ok"
    /\ task.outcome = "err" => task.sleeps = <<10>>
    /\ task.outcome = "ok" => task.sleeps = <<300>>

\* C9: a watcher has at most one RPC request outstanding, and one exactly while
\* it awaits the RPC call; from the answer on it is in exactly one sleep, of
\* 10 s exactly when the call failed and of 300 s exactly when it succeeded;
\* and it moves only from the request to a sleep and from a sleep to the next
\* request.
C9_StrictlySequentialCycle ==
    /\ [](\A task \in Watchers : C9_CycleShape(task))
    /\ [][process' = "running" =>
            /\ bw'.pc # bw.pc => <<bw.pc, bw'.pc>> \in CycleMoves
            /\ \A i \in 1..Len(pws) :
                  pws'[i].pc # pws[i].pc => <<pws[i].pc, pws'[i].pc>> \in CycleMoves]_vars

\* C9's case: of three watchers one is in the 10 s sleep, one in the 300 s
\* sleep and one awaits its RPC call
C9_Witness ==
    /\ Len(pws) = 2
    /\ bw.pc = "backoff" /\ bw.sleeps = <<10>>
    /\ pws[1].pc = "interval" /\ pws[1].sleeps = <<300>>
    /\ pws[2].pc = "rpc" /\ pws[2].outstanding = 1

\* C10: a watcher needs only its own steps (and main's, to be spawned) to send
\* requests again and again: whatever the other watchers do, and also when they
\* never take another step (an RPC call that never returns), a watcher that
\* runs on polls infinitely often, unless the process ends.
C10_StalledWatcherStallsOnlyItself ==
    /\ WF_vars(BalanceWatcher)
          => ([]<><<BwPolls>>_vars \/ <>(process # "running"))
    /\ \A i \in 1..MaxProgramArgs :
          WF_vars(ProgramWatcher(i))
              => \/ []<><<PwPolls(i)>>_vars
                 \/ <>(process # "running")
                 \/ [](Len(pws) < i)

\* C10's case: the balance watcher awaits its first RPC call, which may never
\* return, and a program-accounts watcher spawned after it has ended a cycle
C10_Witness ==
    /\ process = "running"
    /\ bw.pc = "rpc" /\ METRIC_BALANCE_SOL = EmptyMap /\ bw.pubkeys # <<>>
    /\ Len(pws) >= 1
    /\ pws[1].pc = "interval"

\* C11: no task has ended while the process runs on: the metrics server has
\* not ended and no watcher has left its loop in a state whose process runs.
C11_NoTaskEndsAlone ==
    process = "running" =>
        /\ server \in {"unspawned", "serving"}
        /\ bw.pc \in {"unspawned", "spawned", "rpc", "backoff", "interval"}
        /\ \A i \in 1..Len(pws) : pws[i].pc \in {"spawned", "rpc", "backoff", "interval"}

\* a configuration text of the shape name=program token ... token whose
\* program id is an account identifier and whose tokens are all filters
C12_Valid(prog, tokens) ==
    /\ Pubkey_from_str(prog).ok
    /\ \A i \in 1..Len(tokens) : parse_rpc_filter_type(tokens[i]).tag = "Ok"

\* C12: from_str of a valid text name=program token1 ... tokenN returns a
\* target with that name, that program and exactly N filters, the i-th the
\* parse of the i-th token.
C12_FromStrKeepsNameProgramAndFilterOrder ==
    \A name \in ConfigNames, prog \in ConfigPrograms,
       tokens \in SeqsUpTo(ConfigTokens, MaxFilters) :
        ( /\ parsed.fn = "from_str"
          /\ text = config_text(name, prog, tokens)
          /\ C12_Valid(prog, tokens) )
        => /\ parsed.result.tag = "Ok"
           /\ parsed.result.config.name = name
           /\ parsed.result.config.program = prog
           /\ Len(parsed.result.config.filters) = Len(tokens)
           /\ \A i \in 1..Len(tokens) :
                 parsed.result.config.filters[i] = parse_rpc_filter_type(tokens[i]).filter

\* C12's case: from_str has parsed t=P size:1 b58:1:A into two filters, the
\* size first
C12_Witness ==
    /\ parsed.fn = "from_str"
    /\ text = config_text(<<"t">>, <<"P">>,
                          << <<"s", "i", "z", "e", ":", "1">>,
                             <<"b", "5", "8", ":", "1", ":", "A">> >>)
    /\ parsed.result.tag = "Ok"
    /\ Len(parsed.result.config.filters) = 2
    /\ parsed.result.config.filters[1].kind = "DataSize"
    /\ parsed.result.config.filters[2].kind = "Memcmp"

\* the position of the first c of a text, 0 when it has none
FirstAt(t, c) ==
    IF \E k \in 1..Len(t) : t[k] = c
    THEN CHOOSE k \in 1..Len(t) : t[k] = c /\ \A j \in 1..(k - 1) : t[j] # c
    ELSE 0

\* C13: from_str returns the error "Program ID not found!" when nothing
\* follows the first '=' of the text, and the error "Cannot parse
\* ProgramAccountsBalanceConfig" when the text has no '='.
C13_MissingProgramIdAndSeparatorAreErrors ==
    parsed.fn = "from_str" =>
        /\ FirstAt(text, "=") = 0 =>
              parsed.result = [tag |-> "Err",
                               err |-> "Cannot parse ProgramAccountsBalanceConfig"]
        /\ (FirstAt(text, "=") # 0 /\ FirstAt(text, "=") = Len(text)) =>
              parsed.result = [tag |-> "Err", err |-> "Program ID not found!"]

\* C14: from_str returns no target whose name is empty.
C14_NoTargetWithEmptyName ==
    (parsed.fn = "from_str" /\ parsed.result.tag = "Ok")
        => parsed.result.config.name # <<>>

\* the digits of base58: no 0, no O, no I, no l
Base58Alphabet ==
    { "1", "2", "3", "4", "5", "6", "7", "8", "9",
      "A", "B", "C", "D", "E", "F", "G", "H", "J", "K", "L", "M", "N", "P", "Q",
      "R", "S", "T", "U", "V", "W", "X", "Y", "Z",
      "a", "b", "c", "d", "e", "f", "g", "h", "i", "j", "k", "m", "n", "o", "p",
      "q", "r", "s", "t", "u", "v", "w", "x", "y", "z" }
IsBase58(t) == \A i \in 1..Len(t) : t[i] \in Base58Alphabet

\* t is the decimal text of an unsigned integer of the program's width
IsUnsignedText(t) == \E n \in 0..U64_MAX : t = Decimal(n)
UnsignedOf(t) == CHOOSE n \in 0..U64_MAX : t = Decimal(n)

\* C15: parse_memcmp_base58_filter_type of offset:payload fails when the
\* offset is no non-negative integer or the payload is not base58, and
\* otherwise returns the Memcmp filter at that offset whose bytes, encoded in
\* base58, are the payload.
C15_Base58FilterRejectsBadOffsetAndPayload ==
    \A offset \in OffsetTexts, payload \in PayloadTexts :
        ( /\ parsed.fn = "parse_memcmp_base58_filter_type"
          /\ text = offset \o <<":">> \o payload )
        => IF IsUnsignedText(offset) /\ IsBase58(payload)
           THEN parsed.result =
                    [tag |-> "Ok",
                     filter |-> [kind |-> "Memcmp", offset |-> UnsignedOf(offset),
                                 bytes |-> [encoding |-> "Base58", text |-> payload]]]
           ELSE parsed.result.tag = "Err"

\* C16: parse_rpc_filter_type of a token without ':' fails with "Malformed
\* parameter", and of a token whose text before the first ':' is neither b58
\* nor size with "Unsupported parameter type"; neither returns a filter.
C16_FilterKindClassifiedByPrefix ==
    parsed.fn = "parse_rpc_filter_type" =>
        LET k == FirstAt(text, ":")
        IN  /\ k = 0 =>
                  parsed.result = [tag |-> "Err", err |-> "Malformed parameter"]
            /\ (k # 0 /\ SubSeq(text, 1, k - 1) \notin
                              { <<"b", "5", "8">>, <<"s", "i", "z", "e">> }) =>
                  parsed.result = [tag |-> "Err", err |-> "Unsupported parameter type"]

\* C16's case: the token z:1, of a kind that is no filter kind, has been
\* refused
C16_Witness ==
    /\ parsed.fn = "parse_rpc_filter_type"
    /\ text = <<"z", ":", "1">>
    /\ parsed.result.tag = "Err"

\* a text that is a negative number, or no number at all
NegativeOrNonNumeric(t) ==
    \/ t = <<>>
    \/ Head(t) = "-"
    \/ \E i \in 1..Len(t) : t[i] \notin Digits \cup {"+", "-"}

\* C17: parse_data_size_filter_type of the decimal text of a non-negative
\* integer n (of the width of the filter's size) returns DataSize(n), and of a
\* text that is negative or not a number an error.
C17_SizeFilterParsesEveryUnsigned ==
    parsed.fn = "parse_data_size_filter_type" =>
        /\ IsUnsignedText(text) =>
              parsed.result = [tag |-> "Ok",
                               filter |-> [kind |-> "DataSize", size |-> UnsignedOf(text)]]
        /\ NegativeOrNonNumeric(text) => parsed.result.tag = "Err"

\* C17's case: the text of the largest size has been parsed into that size
C17_Witness ==
    /\ parsed.fn = "parse_data_size_filter_type"
    /\ text = Decimal(U64_MAX)
    /\ parsed.result.tag = "Ok"
    /\ parsed.result.filter.size = U64_MAX

\* C18: from the failed poll of the balance watcher on, the family
\* METRIC_BALANCE_SOL holds no gauge: none while the watcher is in the backoff
\* of the failed cycle, and none is added by any step but the balance
\* watcher's handling of a successful RPC call.
C18_NoBalanceGaugeAfterFailure ==
    /\ [](bw.outcome = "err" => METRIC_BALANCE_SOL = EmptyMap)
    /\ [][(METRIC_BALANCE_SOL = EmptyMap /\ METRIC_BALANCE_SOL' # EmptyMap)
            => bw.pc = "rpc" /\ bw'.outcome = "ok"]_vars

\* C18's case: the watcher of two addresses is in the backoff of a failed
\* cycle while a program-accounts watcher's gauge is there
C18_Witness ==
    /\ bw.outcome = "err"
    /\ bw.pc = "backoff"
    /\ Len(bw.pubkeys) = 2
    /\ METRIC_BALANCE_SOL = EmptyMap
    /\ METRIC_TOTAL_BALANCE_SOL # EmptyMap

\* the balance watcher has collected its request list
BwCollected == bw.pc \in {"rpc", "backoff", "interval"}

\* C19: every gauge of METRIC_BALANCE_SOL is labelled with an address of
\* named_pubkeys and the name the map holds for it (so there is at most one
\* per address); the request list is the map's addresses, each once; and no
\* step of the running process changes the list or the map once it is
\* collected.
C19_OneGaugePerAddressFixedRequestList ==
    /\ [](\A label \in DOMAIN METRIC_BALANCE_SOL :
            /\ label[2] \in DOMAIN named_pubkeys
            /\ label[1] = named_pubkeys[label[2]])
    /\ [](BwCollected =>
            /\ {bw.pubkeys[i] : i \in 1..Len(bw.pubkeys)} = DOMAIN named_pubkeys
            /\ Len(bw.pubkeys) = Cardinality(DOMAIN named_pubkeys))
    /\ [][(BwCollected /\ process' = "running")
            => bw'.pubkeys = bw.pubkeys /\ named_pubkeys' = named_pubkeys]_vars

\* C19's case: two addresses under two names, both gauges published, and the
\* watcher is in a later request
C19_Witness ==
    /\ bw.pc = "rpc"
    /\ Cardinality(DOMAIN METRIC_BALANCE_SOL) = 2
    /\ \E p, q \in DOMAIN named_pubkeys : named_pubkeys[p] # named_pubkeys[q]

\* C20: in a step after which the process runs, a change of the balance
\* watcher's task leaves METRIC_TOTAL_BALANCE_SOL as it is, and a change of a
\* program-accounts watcher's task leaves METRIC_BALANCE_SOL as it is and
\* every gauge of METRIC_TOTAL_BALANCE_SOL under another name than its
\* target's as it is, there or not.
C20_WatchersWriteOnlyTheirOwnGauges ==
    [][process' = "running" =>
        /\ bw' # bw => METRIC_TOTAL_BALANCE_SOL' = METRIC_TOTAL_BALANCE_SOL
        /\ \A i \in 1..Len(pws) :
              pws'[i] # pws[i] =>
                /\ METRIC_BALANCE_SOL' = METRIC_BALANCE_SOL
                /\ \A name \in (DOMAIN METRIC_TOTAL_BALANCE_SOL
                                  \cup DOMAIN METRIC_TOTAL_BALANCE_SOL')
                                 \ {pws[i].config.name} :
                      /\ name \in DOMAIN METRIC_TOTAL_BALANCE_SOL
                      /\ name \in DOMAIN METRIC_TOTAL_BALANCE_SOL'
                      /\ METRIC_TOTAL_BALANCE_SOL'[name]
                            = METRIC_TOTAL_BALANCE_SOL[name]]_vars

\* C20's case: a program-accounts watcher has published while a per-account
\* gauge and the aggregate gauge of the other target, under another name, are
\* there
C20_Witness ==
    /\ METRIC_BALANCE_SOL # EmptyMap
    /\ Len(pws) = 2
    /\ pws[1].config.name # pws[2].config.name
    /\ pws[1].outcome = "ok"
    /\ pws[2].config.name \in DOMAIN METRIC_TOTAL_BALANCE_SOL
====
